---- MODULE Spec2Model ----
(***************************************************************************)
(* Model of the storage controller of the file upload server               *)
(* (src/src/controllers.rs: FileUploader) and of the request handlers that *)
(* drive it (src/src/routes.rs).                                           *)
(*                                                                         *)
(* Strings are sequences of tokens.  "/" is the path separator, "." a dot, *)
(* every other token is an ordinary piece of a file name ("lock" stands    *)
(* for the four letters of that word, "file_upload_" for the literal       *)
(* prefix of the default name).  Paths follow std::path on Unix, where     *)
(* Component::Prefix never occurs.                                         *)
(***************************************************************************)
EXTENDS Integers, Sequences, FiniteSets, TLC

(***************************************************************************)
(* Bounds of the model.                                                    *)
(***************************************************************************)
\* u64::MAX scaled down: the largest value upload_count can hold
U64Max == 2
\* number of upload_file calls admitted in one behaviour
MaxUploads == 3
\* longest body (in chunks) of an uploaded field
MaxChunks == 2
\* longest file name (in tokens) drawn by the name-checking specification
MaxNameLen == 3
Procs == {"p1", "p2"}
Paths == {"uploads", "other"}
Tasks == {"t1", "t2"}

NoProc == "none"
NoTask == "none"

(***************************************************************************)
(* Option<T>: None is the empty sequence, Some(x) the one-element one.     *)
(***************************************************************************)
None == << >>
Some(x) == << x >>
IsSome(o) == Len(o) = 1
Unwrap(o) == o[1]

(***************************************************************************)
(* std::path on Unix.                                                      *)
(***************************************************************************)
Sep == "/"
Dot == "."
ParentName == << Dot, Dot >>
CurName == << Dot >>

RECURSIVE SplitSep(_)
\* the pieces of s between separators, empty pieces included
SplitSep(s) ==
    IF s = << >> THEN << << >> >>
    ELSE LET rest == SplitSep(Tail(s))
         IN IF Head(s) = Sep
               THEN << << >> >> \o rest
               ELSE << << Head(s) >> \o Head(rest) >> \o Tail(rest)

has_root(s) == s # << >> /\ Head(s) = Sep

RootDir == [kind |-> "RootDir", name |-> << >>]
CurDir == [kind |-> "CurDir", name |-> << >>]
ParentDir == [kind |-> "ParentDir", name |-> << >>]
Normal(n) == [kind |-> "Normal", name |-> n]

RECURSIVE SegComponents(_, _)
\* components of the pieces: empty pieces vanish, "." survives only as the
\* first piece of a relative path, ".." is ParentDir
SegComponents(segs, first) ==
    IF segs = << >> THEN << >>
    ELSE LET s == Head(segs)
             rest == SegComponents(Tail(segs), FALSE)
         IN IF s = << >> THEN rest
            ELSE IF s = CurName THEN (IF first THEN << CurDir >> \o rest ELSE rest)
            ELSE IF s = ParentName THEN << ParentDir >> \o rest
            ELSE << Normal(s) >> \o rest

\* Path::components
components(s) ==
    IF has_root(s)
       THEN << RootDir >> \o SegComponents(SplitSep(Tail(s)), FALSE)
       ELSE SegComponents(SplitSep(s), TRUE)

\* Path::file_name: the last component when it is a normal one
file_name(s) ==
    LET cs == components(s)
    IN IF cs # << >> /\ cs[Len(cs)].kind = "Normal"
          THEN Some(cs[Len(cs)].name)
          ELSE None

Digits == << "0", "1", "2", "3", "4", "5", "6", "7", "8", "9" >>

RECURSIVE Decimal(_)
\* Display of a u64
Decimal(n) ==
    IF n < 10 THEN << Digits[n + 1] >>
    ELSE Decimal(n \div 10) \o << Digits[(n % 10) + 1] >>

\* format!("file_upload_{}", file_id)
default_filename(file_id) == << "file_upload_" >> \o Decimal(file_id)

LockName == << Dot, "lock" >>

(***************************************************************************)
(* The file system.  The working directory holds the storage directories   *)
(* (one per element of Paths, each named by a single token); everything    *)
(* else is "outside".  An entry of a storage directory is a regular file   *)
(* with its bytes or a subdirectory.                                       *)
(***************************************************************************)
RegularFile(bytes) == [kind |-> "file", data |-> bytes]
Directory == [kind |-> "dir", data |-> << >>]

\* PathBuf::push: an absolute path replaces the base, a relative one is
\* appended after a separator
push(base, name) ==
    IF has_root(name) THEN name
    ELSE IF base # << >> /\ base[Len(base)] = Sep THEN base \o name
    ELSE base \o << Sep >> \o name

AtCwd == [where |-> "cwd", path |-> "", name |-> << >>]
AtOutside == [where |-> "outside", path |-> "", name |-> << >>]
AtStorage(P) == [where |-> "storage", path |-> P, name |-> << >>]
AtEntry(P, n) == [where |-> "entry", path |-> P, name |-> n]
AtDeep(P) == [where |-> "deep", path |-> P, name |-> << >>]
AtError == [where |-> "error", path |-> "", name |-> << >>]

\* one step of the kernel's path walk from loc over the piece seg, in the
\* file system f
WalkStep(f, loc, seg) ==
    LET stay == seg = << >> \/ seg = CurName
        up == seg = ParentName
    IN CASE loc.where = "error" -> AtError
         [] loc.where = "outside" -> AtOutside
         [] loc.where = "cwd" ->
               IF stay THEN AtCwd
               ELSE IF up THEN AtOutside
               ELSE IF Len(seg) = 1 /\ seg[1] \in Paths THEN
                       (IF f[seg[1]].exists THEN AtStorage(seg[1]) ELSE AtError)
               ELSE AtOutside
         [] loc.where = "storage" ->
               IF stay THEN loc
               ELSE IF up THEN AtCwd
               ELSE AtEntry(loc.path, seg)
         [] loc.where = "deep" ->
               IF stay THEN loc ELSE IF up THEN AtDeep(loc.path) ELSE AtDeep(loc.path)
         [] OTHER -> \* an entry: only a subdirectory can be walked through
               IF loc.name \in DOMAIN f[loc.path].entries
                  /\ f[loc.path].entries[loc.name].kind = "dir"
                  THEN (IF stay THEN loc
                        ELSE IF up THEN AtStorage(loc.path)
                        ELSE AtDeep(loc.path))
                  ELSE AtError

RECURSIVE Walk(_, _, _)
Walk(f, loc, segs) ==
    IF segs = << >> THEN loc
    ELSE Walk(f, WalkStep(f, loc, Head(segs)), Tail(segs))

\* where the kernel resolves the path string s to
Resolve(f, s) ==
    IF has_root(s) THEN AtOutside ELSE Walk(f, AtCwd, SplitSep(s))

Present(f, loc) ==
    loc.where = "entry" /\ loc.name \in DOMAIN f[loc.path].entries

IsDirAt(f, loc) ==
    \/ loc.where \in {"cwd", "storage"}
    \/ Present(f, loc) /\ f[loc.path].entries[loc.name].kind = "dir"

\* the directory f[P] with entry n set to e
PutEntry(f, P, n, e) ==
    [f EXCEPT ![P].entries =
        [m \in DOMAIN f[P].entries \cup {n} |->
            IF m = n THEN e ELSE f[P].entries[m]]]

\* bytes with chunk c written at offset pos (a write past the end leaves a
\* hole of zero bytes)
WriteAt(bytes, pos, c) ==
    [i \in 1..(IF Len(bytes) > pos + 1 THEN Len(bytes) ELSE pos + 1) |->
        IF i = pos + 1 THEN c
        ELSE IF i <= Len(bytes) THEN bytes[i] ELSE 0]

VARIABLES
    proc,          \* per process: position in FileUploader::new and its folder
    flock,         \* per storage directory: the process holding the lock on .lock
    fs,            \* per storage directory: whether it exists, and its entries
    upload_count,  \* per controller: the counter behind the mutex
    mutex,         \* per controller: the task holding the counter's mutex
    task,          \* per request handler: position in upload_file / write_file
    calls,         \* number of upload_file calls started
    reserved,      \* ids handed to write_file, in order
    log,           \* the upload_file calls that returned, in order
    outside,       \* file operations that reached a place other than an entry
    resp,          \* the answer of the latest list, download or info request
    probe          \* the file name the name-checking specification tries

vars == << proc, flock, fs, upload_count, mutex, task, calls, reserved, log, outside,
           resp, probe >>

IdleTask ==
    [pc |-> "idle", proc |-> NoProc, call |-> 0, hint |-> None, body |-> << >>,
     len |-> 0, id |-> 0, after |-> 0, with |-> {}, file_id |-> 0, safe_name |-> << >>,
     handle |-> AtError, pos |-> 0]

NoResp ==
    [op |-> "none", arg |-> << >>, tried |-> FALSE, found |-> FALSE, at |-> AtError,
     names |-> {}, text |-> << >>]

\* the bytes of the field of call number u with n chunks
Body(u, n) == [i \in 1..n |-> (10 * u) + i]

(***************************************************************************)
(* FileUploader::new, one process each.                                    *)
(***************************************************************************)
folder_path(p) == << proc[p].folder >>

\* a lock that is granted whoever holds it
LockFreeAlways(P) == TRUE

\* fs2 try_lock_exclusive (flock LOCK_EX | LOCK_NB) on the .lock of P:
\* granted when no open file holds the lock
LockFree(P) == flock[P] = NoProc

\* std::fs::create_dir_all(&folder_path)?
CreateDirAll(p) ==
    /\ proc[p].pc = "start"
    /\ \E P \in Paths :
          \/ /\ proc' = [proc EXCEPT ![p] = [pc |-> "dir", folder |-> P, err |-> "none"]]
             /\ fs' = [fs EXCEPT ![P].exists = TRUE]
          \/ /\ proc' = [proc EXCEPT ![p] = [pc |-> "failed", folder |-> P, err |-> "io"]]
             /\ fs' = fs
    /\ UNCHANGED << flock, upload_count, mutex, task, calls, reserved, log, outside, resp, probe >>

\* File::options().read(true).write(true).truncate(true).create(true).open(".lock")?
OpenLockFile(p) ==
    /\ proc[p].pc = "dir"
    /\ \/ /\ proc' = [proc EXCEPT ![p].pc = "opened"]
          /\ fs' = PutEntry(fs, proc[p].folder, LockName, RegularFile(<< >>))
       \/ /\ proc' = [proc EXCEPT ![p].pc = "failed", ![p].err = "io"]
          /\ fs' = fs
    /\ UNCHANGED << flock, upload_count, mutex, task, calls, reserved, log, outside, resp, probe >>

\* lock_file.try_lock_exclusive()?; Ok(Self { .., upload_count: Mutex::new(0) })
TryLockExclusive(p) ==
    /\ proc[p].pc = "opened"
    /\ IF LockFree(proc[p].folder)
          THEN /\ flock' = [flock EXCEPT ![proc[p].folder] = p]
               /\ proc' = [proc EXCEPT ![p].pc = "ready"]
               /\ upload_count' = [upload_count EXCEPT ![p] = 0]
               /\ mutex' = [mutex EXCEPT ![p] = NoTask]
          ELSE /\ proc' = [proc EXCEPT ![p].pc = "failed", ![p].err = "locked"]
               /\ UNCHANGED << flock, upload_count, mutex >>
    /\ UNCHANGED << fs, task, calls, reserved, log, outside, resp, probe >>

\* the process ends: its controller is dropped, the lock file is closed and
\* the kernel releases the lock
Exit(p) ==
    /\ proc[p].pc = "ready"
    /\ \A t \in Tasks : task[t].proc # p
    /\ proc' = [proc EXCEPT ![p].pc = "released"]
    /\ flock' = [flock EXCEPT ![proc[p].folder] =
                    IF flock[proc[p].folder] = p THEN NoProc ELSE flock[proc[p].folder]]
    /\ UNCHANGED << fs, upload_count, mutex, task, calls, reserved, log, outside, resp, probe >>

(***************************************************************************)
(* FileUploader::upload_file and write_file, one request handler each.     *)
(***************************************************************************)
\* an increment that wraps at the counter's width
wrapping_add(n) == Some((n + 1) % (U64Max + 1))

\* an increment that counts an upload twice
double_add(n) == IF n + 1 >= U64Max THEN None ELSE Some(n + 2)

\* u64::checked_add(1)
checked_add(n) == IF n >= U64Max THEN None ELSE Some(n + 1)

\* a mutex that excludes nobody
MutexFreeAlways(p) == TRUE

\* tokio Mutex::lock: granted when no task holds the guard
MutexFree(p) == mutex[p] = NoTask

\* the client's name taken as it comes
raw_name(hint, file_id) ==
    IF IsSome(hint) THEN Unwrap(hint) ELSE default_filename(file_id)

\* the name write_file stores the field under (controllers.rs 82-87)
safe_name(hint, file_id) ==
    LET raw_filename == IF IsSome(hint) THEN Unwrap(hint) ELSE default_filename(file_id)
        last == file_name(raw_filename)
    IN IF IsSome(last) THEN Unwrap(last) ELSE default_filename(file_id)

\* the path write_file creates
file_path(p, name) == push(folder_path(p), name)

\* the bytes of the file a handle is open on
DataAt(f, h) ==
    IF Present(f, h) THEN f[h.path].entries[h.name].data ELSE << >>

\* upload_file returns: Ok(Filedata { filename: name }) or the error err.
\* The entry keeps what the call was given, the id and name it used, the
\* calls whose write_file ran while its own did, and the bytes its file
\* held when it returned.
Finish(t, name, err) ==
    /\ log' = Append(log, [call |-> task[t].call, proc |-> task[t].proc,
                          hint |-> task[t].hint, len |-> task[t].len,
                          id |-> task[t].file_id, after |-> task[t].after,
                          name |-> name, ok |-> err = "none", err |-> err,
                          with |-> task[t].with,
                          stored |-> DataAt(fs, task[t].handle)])
    /\ task' = [task EXCEPT ![t] = IdleTask]

\* a handler that calls upload_file on a controller in any condition
NextFieldAnyProc(t, hints, lens) ==
    /\ task[t].pc = "idle"
    /\ calls < MaxUploads
    /\ \E p \in Procs, h \in hints, n \in lens :
          task' = [task EXCEPT ![t] =
                [IdleTask EXCEPT !.pc = "lock", !.proc = p, !.call = calls + 1,
                                 !.hint = h, !.body = Body(calls + 1, n),
                                 !.len = n]]
    /\ calls' = calls + 1
    /\ UNCHANGED << proc, flock, fs, upload_count, mutex, reserved, log, outside, resp, probe >>

\* post_upload: multipart.next_field() yields a field; upload_file starts
\* and asks for the counter's mutex
NextField(t, hints, lens) ==
    /\ task[t].pc = "idle"
    /\ calls < MaxUploads
    /\ \E p \in Procs, h \in hints, n \in lens :
          /\ proc[p].pc = "ready"
          /\ task' = [task EXCEPT ![t] =
                [IdleTask EXCEPT !.pc = "lock", !.proc = p, !.call = calls + 1,
                                 !.hint = h, !.body = Body(calls + 1, n),
                                 !.len = n]]
    /\ calls' = calls + 1
    /\ UNCHANGED << proc, flock, fs, upload_count, mutex, reserved, log, outside, resp, probe >>

\* let mut count = self.upload_count.lock().await;
Lock(t) ==
    /\ task[t].pc = "lock"
    /\ MutexFree(task[t].proc)
    /\ mutex' = [mutex EXCEPT ![task[t].proc] = t]
    /\ task' = [task EXCEPT ![t].pc = "read"]
    /\ UNCHANGED << proc, flock, fs, upload_count, calls, reserved, log, outside, resp, probe >>

\* let id = *count;
ReadCount(t) ==
    /\ task[t].pc = "read"
    /\ task' = [task EXCEPT ![t].pc = "add", ![t].id = upload_count[task[t].proc]]
    /\ UNCHANGED << proc, flock, fs, upload_count, mutex, calls, reserved, log, outside, resp, probe >>

\* an overflow whose error return leaves the guard alive
CheckedAddKeepingGuard(t) ==
    /\ task[t].pc = "add"
    /\ LET p == task[t].proc
           next == checked_add(upload_count[p])
       IN IF IsSome(next)
             THEN /\ upload_count' = [upload_count EXCEPT ![p] = Unwrap(next)]
                  /\ task' = [task EXCEPT ![t].pc = "unlock", ![t].after = Unwrap(next)]
                  /\ UNCHANGED << mutex, log >>
             ELSE /\ Finish(t, << >>, "overflow")
                  /\ UNCHANGED << upload_count, mutex >>
    /\ UNCHANGED << proc, flock, fs, calls, reserved, outside, resp, probe >>

\* an increment whose overflow is ignored: the call goes on to write_file
CheckedAddProceeding(t) ==
    /\ task[t].pc = "add"
    /\ LET p == task[t].proc
           next == checked_add(upload_count[p])
       IN /\ upload_count' = [upload_count EXCEPT ![p] =
                                 IF IsSome(next) THEN Unwrap(next) ELSE @]
          /\ task' = [task EXCEPT ![t].pc = "unlock", ![t].after = upload_count'[p]]
          /\ UNCHANGED << mutex, log >>
    /\ UNCHANGED << proc, flock, fs, calls, reserved, outside, resp, probe >>

\* *count = count.checked_add(1).ok_or_else(..)?;  an overflow returns the
\* error, which drops the guard
CheckedAdd(t) ==
    /\ task[t].pc = "add"
    /\ LET p == task[t].proc
           next == checked_add(upload_count[p])
       IN IF IsSome(next)
             THEN /\ upload_count' = [upload_count EXCEPT ![p] = Unwrap(next)]
                  /\ task' = [task EXCEPT ![t].pc = "unlock", ![t].after = Unwrap(next)]
                  /\ UNCHANGED << mutex, log >>
             ELSE /\ mutex' = [mutex EXCEPT ![p] = IF mutex[p] = t THEN NoTask ELSE mutex[p]]
                  /\ Finish(t, << >>, "overflow")
                  /\ UNCHANGED upload_count
    /\ UNCHANGED << proc, flock, fs, calls, reserved, outside, resp, probe >>

\* a block whose guard lives on into write_file
UnlockKeepingGuard(t) ==
    /\ task[t].pc = "unlock"
    /\ task' = [task EXCEPT ![t].pc = "create", ![t].file_id = task[t].id]
    /\ reserved' = Append(reserved, [proc |-> task[t].proc, id |-> task[t].id])
    /\ UNCHANGED << proc, flock, fs, upload_count, mutex, calls, log, outside, resp, probe >>

\* id }  -- the block ends, the guard is dropped, file_id is the block's value
Unlock(t) ==
    /\ task[t].pc = "unlock"
    /\ mutex' = [mutex EXCEPT ![task[t].proc] =
                    IF mutex[task[t].proc] = t THEN NoTask ELSE mutex[task[t].proc]]
    /\ task' = [task EXCEPT ![t].pc = "create", ![t].file_id = task[t].id]
    /\ reserved' = Append(reserved, [proc |-> task[t].proc, id |-> task[t].id])
    /\ UNCHANGED << proc, flock, fs, upload_count, calls, log, outside, resp, probe >>

\* the handlers once t holds a handle on loc: t and every handler already
\* writing note each other's call
Opened(t, name, loc) ==
    LET others == {u \in Tasks \ {t} : task[u].pc = "chunk"}
    IN [u \in Tasks |->
          IF u = t
             THEN [task[t] EXCEPT !.pc = "chunk", !.safe_name = name, !.handle = loc,
                                  !.with = {task[v].call : v \in others}]
          ELSE IF u \in others
             THEN [task[u] EXCEPT !.with = task[u].with \cup {task[t].call}]
          ELSE task[u]]

\* safe_name; file_path.push(&safe_name); tokio::fs::File::create(file_path).await?
CreateFile(t) ==
    /\ task[t].pc = "create"
    /\ LET p == task[t].proc
           name == safe_name(task[t].hint, task[t].file_id)
           loc == Resolve(fs, file_path(p, name))
       IN \/ \* the file is created, or truncated when it exists
             /\ loc.where = "entry"
             /\ ~IsDirAt(fs, loc)
             /\ fs' = PutEntry(fs, loc.path, loc.name, RegularFile(<< >>))
             /\ task' = Opened(t, name, loc)
             /\ UNCHANGED << log, outside >>
          \/ \* the path leaves the storage directory or enters a subdirectory
             /\ loc.where \in {"outside", "deep"}
             /\ outside' = outside \cup {[op |-> "create", where |-> loc.where]}
             /\ task' = Opened(t, name, loc)
             /\ UNCHANGED << fs, log >>
          \/ \* the create fails (a directory is in the way, or an I/O error)
             /\ Finish(t, name, "io")
             /\ UNCHANGED << fs, outside >>
    /\ UNCHANGED << proc, flock, upload_count, mutex, calls, reserved, resp, probe >>

\* a chunk loop that gives the id back to the counter when it fails
WriteChunkRollingBack(t) ==
    /\ task[t].pc = "chunk"
    /\ task[t].body # << >>
    /\ LET h == task[t].handle
       IN \/ /\ IF h.where = "entry"
                   THEN fs' = PutEntry(fs, h.path, h.name,
                                RegularFile(WriteAt(fs[h.path].entries[h.name].data,
                                                    task[t].pos, Head(task[t].body))))
                   ELSE fs' = fs
             /\ task' = [task EXCEPT ![t].body = Tail(task[t].body),
                                      ![t].pos = task[t].pos + 1]
             /\ UNCHANGED << log, upload_count >>
          \/ /\ Finish(t, task[t].safe_name, "io")
             /\ upload_count' = [upload_count EXCEPT ![task[t].proc] = @ - 1]
             /\ UNCHANGED fs
    /\ UNCHANGED << proc, flock, mutex, calls, reserved, outside, resp, probe >>

\* while let Some(chunk) = field.chunk().await? { file_handle.write_all(&chunk).await?; }
\* one turn of the loop: the chunk goes to the handle's own position
WriteChunk(t) ==
    /\ task[t].pc = "chunk"
    /\ task[t].body # << >>
    /\ LET h == task[t].handle
       IN \/ /\ IF h.where = "entry"
                   THEN fs' = PutEntry(fs, h.path, h.name,
                                RegularFile(WriteAt(fs[h.path].entries[h.name].data,
                                                    task[t].pos, Head(task[t].body))))
                   ELSE fs' = fs
             /\ task' = [task EXCEPT ![t].body = Tail(task[t].body),
                                      ![t].pos = task[t].pos + 1]
             /\ UNCHANGED log
          \/ \* field.chunk() or write_all fails: `?` returns the error
             /\ Finish(t, task[t].safe_name, "io")
             /\ UNCHANGED fs
    /\ UNCHANGED << proc, flock, upload_count, mutex, calls, reserved, outside, resp, probe >>

\* the stream has ended: file_handle.flush().await?; Ok(Filedata { filename: safe_name })
Flush(t) ==
    /\ task[t].pc = "chunk"
    /\ task[t].body = << >>
    /\ \/ Finish(t, task[t].safe_name, "none")
       \/ Finish(t, task[t].safe_name, "io")
    /\ UNCHANGED << proc, flock, fs, upload_count, mutex, calls, reserved, outside, resp, probe >>

(***************************************************************************)
(* The read-only operations, each answered in one step.                    *)
(***************************************************************************)
\* a check that forgets the root component
has_traversal_parent_only(name) ==
    \E i \in 1..Len(components(name)) : components(name)[i].kind = "ParentDir"

\* path.components().any(|c| matches!(c, ParentDir | RootDir | Prefix(_)))
has_traversal(name) ==
    \E i \in 1..Len(components(name)) :
        components(name)[i].kind \in {"ParentDir", "RootDir", "Prefix"}

\* a check that also turns away hidden files
is_invalid_or_hidden(name) ==
    has_traversal(name) \/ name = << >> \/ name[1] = Dot

is_invalid_filename(name) == has_traversal(name) \/ name = << >>

\* FileUploader::download_file
DownloadFile(p, name) ==
    /\ proc[p].pc = "ready"
    /\ IF is_invalid_filename(name)
          THEN /\ resp' = [NoResp EXCEPT !.op = "download", !.arg = name]
               /\ UNCHANGED outside
          ELSE LET loc == Resolve(fs, push(folder_path(p), name))
                   opens == Present(fs, loc) \/ loc.where \in {"cwd", "storage", "outside", "deep"}
               IN \/ /\ opens
                     /\ resp' = [NoResp EXCEPT !.op = "download", !.arg = name,
                                               !.tried = TRUE, !.found = TRUE, !.at = loc]
                     /\ outside' = IF loc.where \in {"outside", "deep", "cwd"}
                                      THEN outside \cup {[op |-> "open", where |-> loc.where]}
                                      ELSE outside
                  \/ \* File::open fails: Err(_) => return Ok(None)
                     /\ resp' = [NoResp EXCEPT !.op = "download", !.arg = name,
                                               !.tried = TRUE, !.at = loc]
                     /\ UNCHANGED outside
    /\ UNCHANGED << proc, flock, fs, upload_count, mutex, task, calls, reserved, log, probe >>

\* FileUploader::get_all_file_data
GetAllFileData(p) ==
    /\ proc[p].pc = "ready"
    /\ LET es == fs[proc[p].folder].entries
       IN resp' = [NoResp EXCEPT !.op = "list", !.found = TRUE,
                                 !.names = {n \in DOMAIN es : es[n].kind # "dir"}]
    /\ UNCHANGED << proc, flock, fs, upload_count, mutex, task, calls, reserved, log, outside,
                    probe >>

\* FileUploader::get_info: the guard is taken and dropped inside format!
GetInfo(p) ==
    /\ proc[p].pc = "ready"
    /\ MutexFree(p)
    /\ resp' = [NoResp EXCEPT !.op = "info", !.found = TRUE,
                              !.text = << "Uploaded " >> \o Decimal(upload_count[p])
                                       \o << " files to '", proc[p].folder, "'" >>]
    /\ UNCHANGED << proc, flock, fs, upload_count, mutex, task, calls, reserved, log, outside,
                    probe >>

(***************************************************************************)
(* Specifications.                                                         *)
(***************************************************************************)
Alphabet == {Sep, Dot, "a", "lock"}

RECURSIVE NamesUpTo(_)
\* every string of at most n tokens
NamesUpTo(n) ==
    IF n = 0 THEN {<< >>}
    ELSE LET shorter == NamesUpTo(n - 1)
         IN shorter \cup {Append(s, c) : s \in shorter, c \in Alphabet}

AllNames == NamesUpTo(MaxNameLen)

\* the client file names of the concurrent specification
FewHints == {None, Some(<< "a" >>), Some(<< "b", Sep, "a" >>)}

NoFs == [P \in Paths |-> [exists |-> FALSE, entries |-> << >>]]

\* no controller has been constructed
InitLock ==
    /\ proc = [p \in Procs |-> [pc |-> "start", folder |-> "uploads", err |-> "none"]]
    /\ flock = [P \in Paths |-> NoProc]
    /\ fs = NoFs
    /\ upload_count = [p \in Procs |-> 0]
    /\ mutex = [p \in Procs |-> NoTask]
    /\ task = [t \in Tasks |-> IdleTask]
    /\ calls = 0
    /\ reserved = << >>
    /\ log = << >>
    /\ outside = {}
    /\ resp = NoResp
    /\ probe = << >>

\* process p1 has constructed its controller on "uploads"
Constructed ==
    /\ proc = [p \in Procs |-> [pc |-> IF p = "p1" THEN "ready" ELSE "start",
                               folder |-> "uploads", err |-> "none"]]
    /\ flock = [P \in Paths |-> IF P = "uploads" THEN "p1" ELSE NoProc]
    /\ fs = PutEntry([NoFs EXCEPT !["uploads"].exists = TRUE], "uploads", LockName,
                     RegularFile(<< >>))
    /\ upload_count = [p \in Procs |-> 0]
    /\ mutex = [p \in Procs |-> NoTask]
    /\ task = [t \in Tasks |-> IdleTask]
    /\ calls = 0
    /\ reserved = << >>
    /\ log = << >>
    /\ outside = {}
    /\ resp = NoResp

Init == Constructed /\ probe = << >>

Upload(t) ==
    \/ Lock(t)
    \/ ReadCount(t)
    \/ CheckedAdd(t)
    \/ Unlock(t)
    \/ CreateFile(t)
    \/ WriteChunk(t)
    \/ Flush(t)

\* concurrent uploads with bodies
Next ==
    \/ \E t \in Tasks : NextField(t, FewHints, 0..MaxChunks)
    \/ \E t \in Tasks : Upload(t)

Spec == Init /\ [][Next]_vars

\* concurrent uploads of one-chunk fields
NextBatch ==
    \/ \E t \in Tasks : NextField(t, FewHints, {1})
    \/ \E t \in Tasks : Upload(t)

SpecBatch == Init /\ [][NextBatch]_vars

\* concurrent uploads of one-chunk unnamed fields, among the read-only requests
NextCounter ==
    \/ \E t \in Tasks : NextField(t, {None}, {1})
    \/ \E t \in Tasks : Upload(t)
    \/ \E p \in Procs : DownloadFile(p, << "file_upload_", "0" >>)
    \/ \E p \in Procs : GetAllFileData(p)
    \/ \E p \in Procs : GetInfo(p)

SpecCounter == Init /\ [][NextCounter]_vars

\* one handler, uploading and downloading under one client file name
InitNames == Constructed /\ probe \in AllNames

NextNames ==
    \/ NextField("t1", {Some(probe)}, {1})
    \/ Upload("t1")
    \/ \E p \in Procs : DownloadFile(p, probe)

SpecNames == InitNames /\ [][NextNames]_vars

NextLock ==
    \/ \E p \in Procs : CreateDirAll(p)
    \/ \E p \in Procs : OpenLockFile(p)
    \/ \E p \in Procs : TryLockExclusive(p)
    \/ \E p \in Procs : Exit(p)

SpecLock == InitLock /\ [][NextLock]_vars

\* a subdirectory somebody made in the storage directory
SubDirName == << "d" >>

\* what create_dir_all finds in an existing storage directory: nothing, or
\* a subdirectory
OldEntries == {<< >>, [n \in {SubDirName} |-> Directory]}

\* process p1 has constructed its controller on a storage directory that
\* existed before
InitFiles ==
    /\ proc = [p \in Procs |-> [pc |-> IF p = "p1" THEN "ready" ELSE "start",
                               folder |-> "uploads", err |-> "none"]]
    /\ flock = [P \in Paths |-> IF P = "uploads" THEN "p1" ELSE NoProc]
    /\ \E old \in OldEntries :
          fs = PutEntry([NoFs EXCEPT !["uploads"] = [exists |-> TRUE, entries |-> old]],
                        "uploads", LockName, RegularFile(<< >>))
    /\ upload_count = [p \in Procs |-> 0]
    /\ mutex = [p \in Procs |-> NoTask]
    /\ task = [t \in Tasks |-> IdleTask]
    /\ calls = 0
    /\ reserved = << >>
    /\ log = << >>
    /\ outside = {}
    /\ resp = NoResp
    /\ probe = << >>

\* the file display page is loaded and one of the files it shows is asked for
DownloadListed(p) ==
    /\ resp.op = "list"
    /\ \E n \in resp.names : DownloadFile(p, n)

\* one handler uploading, among listings and downloads of listed files
NextFiles ==
    \/ NextField("t1", {None, Some(<< "a" >>)}, {1})
    \/ Upload("t1")
    \/ \E p \in Procs : GetAllFileData(p)
    \/ \E p \in Procs : DownloadListed(p)

SpecFiles == InitFiles /\ [][NextFiles]_vars

\* a server is stopped and servers are started, among uploads of one-chunk
\* unnamed fields, one at a time, and requests for the file list and for
\* the first default-named file
NextRestart ==
    \/ NextField("t1", {None}, {1})
    \/ Upload("t1")
    \/ \E p \in Procs : GetAllFileData(p)
    \/ \E p \in Procs : DownloadFile(p, default_filename(0))
    \/ \E p \in Procs : Exit(p)
    \/ \E p \in Procs : CreateDirAll(p)
    \/ \E p \in Procs : OpenLockFile(p)
    \/ \E p \in Procs : TryLockExclusive(p)

SpecRestart == Init /\ [][NextRestart]_vars

\* concurrent uploads of one-chunk unnamed fields among get_info calls
NextFair ==
    \/ \E t \in Tasks : NextField(t, {None}, {1})
    \/ \E t \in Tasks : Upload(t)
    \/ \E p \in Procs : GetInfo(p)

\* the runtime keeps polling a handler that can go on, and tokio's Mutex
\* serves its waiters in FIFO order, so a waiter is not passed over for
\* ever; the steps of the critical section never wait for anything.  No
\* file operation is required to finish.
Fairness ==
    \A t \in Tasks :
        /\ SF_vars(Lock(t))
        /\ WF_vars(ReadCount(t))
        /\ WF_vars(CheckedAdd(t))
        /\ WF_vars(Unlock(t))

SpecFair == Init /\ [][NextFair]_vars /\ Fairness

(***************************************************************************)
(* Properties.                                                             *)
(***************************************************************************)
Range(f) == {f[i] : i \in DOMAIN f}

\* p has run try_lock_exclusive and its controller, if it got one, is alive
Attempted(p) ==
    \/ proc[p].pc = "ready"
    \/ proc[p].pc = "failed" /\ proc[p].err = "locked"

\* C1: of two constructions racing on one storage path exactly one succeeds
\* and the other fails on the lock; a live controller holds the lock of its
\* path, so no path has two live controllers.
C1_OneConstructionWins ==
    /\ \A p \in Procs : proc[p].pc = "ready" => flock[proc[p].folder] = p
    /\ \A p, q \in Procs :
          (p # q /\ proc[p].folder = proc[q].folder /\ Attempted(p) /\ Attempted(q))
          => \/ proc[p].pc = "ready" /\ proc[q].pc = "failed"
             \/ proc[q].pc = "ready" /\ proc[p].pc = "failed"

C1_Witness ==
    /\ proc["p1"].pc = "ready"
    /\ proc["p2"].pc = "failed" /\ proc["p2"].err = "locked"
    /\ proc["p1"].folder = proc["p2"].folder

\* the upload_file calls that have left the critical section with an id
Admitted ==
    Cardinality({t \in Tasks : task[t].pc \in {"create", "chunk"}})
    + Cardinality({i \in DOMAIN log : log[i].err # "overflow"})

\* C2: every upload_file call that leaves the critical section has reserved
\* one id, and no two calls on a controller hold the same id.
C2_IdsUnique ==
    /\ Len(reserved) = Admitted
    /\ \A i, j \in DOMAIN reserved : reserved[i] = reserved[j] => i = j
    /\ \A t, u \in Tasks :
          (t # u /\ task[t].pc \in {"create", "chunk"} /\ task[u].pc \in {"create", "chunk"}
           /\ task[t].proc = task[u].proc)
          => task[t].file_id # task[u].file_id

C2_Witness ==
    /\ task["t1"].pc = "chunk" /\ task["t2"].pc = "chunk"
    /\ Len(reserved) = 2

\* C3: on a controller whose counter starts at 0, the ids reserved by N
\* uploads are exactly 1..N.
C3_IdsOneToN ==
    {reserved[i].id : i \in DOMAIN reserved} = 1..Len(reserved)

\* C4: an upload without a client file name is stored as file_upload_<id>,
\* <id> the value of the counter after the upload's increment (file_upload_1
\* for the first upload of a fresh controller).
C4_DefaultNameIsCountAfter ==
    \A i \in DOMAIN log :
        (log[i].ok /\ log[i].hint = None)
        => log[i].name = << "file_upload_" >> \o Decimal(log[i].after)

\* t performs the checked increment in this step
Increments(t) == task[t].pc = "add" /\ task'[t].pc # "add"

\* C5: upload_count never decreases and never wraps: an upload_file call
\* adds exactly 1 to it or, at the maximum, returns the overflow error and
\* leaves it as it is; no other step changes it.
C5_CounterMonotonic ==
    [][\A p \in Procs :
          /\ upload_count'[p] >= upload_count[p]
          /\ upload_count'[p] <= U64Max
          /\ upload_count'[p] # upload_count[p]
                => \E t \in Tasks : Increments(t) /\ task[t].proc = p
          /\ \A t \in Tasks :
                (Increments(t) /\ task[t].proc = p)
                => IF upload_count[p] = U64Max
                      THEN /\ upload_count'[p] = upload_count[p]
                           /\ log' = Append(log, log'[Len(log')])
                           /\ log'[Len(log')].err = "overflow"
                           /\ log'[Len(log')].call = task[t].call
                      ELSE upload_count'[p] = upload_count[p] + 1]_vars

C5_Witness ==
    /\ upload_count["p1"] = U64Max
    /\ \E i \in DOMAIN log : log[i].err = "overflow"
    /\ resp.op # "none"

\* the pieces of a name between separators
Pieces(n) == Range(SplitSep(n))

\* C6: a download request whose name has a ".." piece or is absolute (Unix
\* has no drive prefixes) is answered not-found without File::open being
\* called, and no download opens a path outside the storage directory.
C6_TraversalRejected ==
    /\ (resp.op = "download" /\ (ParentName \in Pieces(resp.arg) \/ has_root(resp.arg)))
       => ~resp.tried /\ ~resp.found
    /\ \A x \in outside : x.op = "open" => x.where \notin {"outside", "cwd"}

C6_Witness ==
    /\ resp.op = "download"
    /\ ParentName \in Pieces(resp.arg)
    /\ ~has_root(resp.arg)
    /\ ~resp.found
    /\ log # << >>

\* the pieces of a client name that name something: not empty, not "."
Naming(raw) ==
    SelectSeq(SplitSep(raw), LAMBDA piece : piece # << >> /\ piece # CurName)

\* the name the claim gives an upload: the final piece of the client's
\* name, or the default name when there is none (no name, nothing naming,
\* or "..")
ClaimedName(hint, id) ==
    IF IsSome(hint) /\ Naming(Unwrap(hint)) # << >>
       /\ Naming(Unwrap(hint))[Len(Naming(Unwrap(hint)))] # ParentName
       THEN Naming(Unwrap(hint))[Len(Naming(Unwrap(hint)))]
       ELSE << "file_upload_" >> \o Decimal(id)

\* C7: whatever the client's file name, write_file creates its file as a
\* direct entry of the storage directory, named by the final piece of the
\* client's name or by the default name; it creates no subdirectory, writes
\* nothing outside, and the name it returns holds no separator.
C7_StoredDirectlyInStorage ==
    /\ \A t \in Tasks :
          task[t].pc = "chunk"
          => /\ task[t].handle = AtEntry(proc[task[t].proc].folder, task[t].safe_name)
             /\ task[t].safe_name = ClaimedName(task[t].hint, task[t].file_id)
             /\ Sep \notin Range(task[t].safe_name)
    /\ \A i \in DOMAIN log :
          log[i].ok
          => /\ log[i].name = ClaimedName(log[i].hint, log[i].id)
             /\ Sep \notin Range(log[i].name)
             /\ log[i].name \notin {<< >>, CurName, ParentName}
             /\ log[i].name \in DOMAIN fs[proc[log[i].proc].folder].entries
    /\ \A P \in Paths : \A n \in DOMAIN fs[P].entries : fs[P].entries[n].kind = "file"
    /\ \A x \in outside : x.op # "create"

C7_Witness ==
    \E i \in DOMAIN log :
        /\ log[i].ok
        /\ IsSome(log[i].hint)
        /\ has_root(Unwrap(log[i].hint))
        /\ Len(Unwrap(log[i].hint)) > 2
        /\ log[i].name = << "a" >>

\* every upload_file call made so far has returned success
AllUploaded ==
    /\ \A t \in Tasks : task[t].pc = "idle"
    /\ log # << >>
    /\ \A i \in DOMAIN log : log[i].ok /\ log[i].proc = "p1"

\* the regular files of p1's storage directory that the uploads returned
UploadedFiles ==
    {n \in DOMAIN fs["uploads"].entries :
        /\ fs["uploads"].entries[n].kind = "file"
        /\ \E i \in DOMAIN log : log[i].name = n}

\* C8 as stated: after N concurrent uploads with pairwise distinct client
\* file names on a fresh controller, the count is N and N distinct files
\* exist.
C8_DistinctClientNames ==
    (AllUploaded /\ \A i, j \in DOMAIN log : log[i].hint = log[j].hint => i = j)
    => /\ upload_count["p1"] = Len(log)
       /\ Cardinality(UploadedFiles) = Len(log)

\* C8 (amended): after N concurrent uploads whose stored names are pairwise
\* distinct, on a fresh controller, the count is N and N distinct files
\* exist.
C8_DistinctStoredNames ==
    (AllUploaded /\ \A i, j \in DOMAIN log : log[i].name = log[j].name => i = j)
    => /\ upload_count["p1"] = Len(log)
       /\ Cardinality(UploadedFiles) = Len(log)

C8_Witness ==
    /\ AllUploaded
    /\ Len(log) = 2
    /\ log[1].name # log[2].name
    /\ log[1].hint # None
    /\ log[2].call \in log[1].with
    /\ Cardinality(UploadedFiles) = 2

\* C9: when upload_file returns success, the file under the returned name
\* holds exactly the chunks of the uploaded stream, in order.
C9_StoredEqualsSent ==
    \A i \in DOMAIN log :
        log[i].ok => log[i].stored = Body(log[i].call, log[i].len)

\* C10: of two concurrent uploads stored under one name, the one that
\* returns last leaves the file holding exactly its own content.
C10_LastWriterWins ==
    \A i, j \in DOMAIN log :
        (i < j /\ log[i].ok /\ log[j].ok /\ log[i].name = log[j].name
         /\ log[j].call \in log[i].with)
        => log[j].stored = Body(log[j].call, log[j].len)

\* the entries of p's storage directory that are not subdirectories
NonDirEntries(p) ==
    {n \in DOMAIN fs[proc[p].folder].entries : fs[proc[p].folder].entries[n].kind # "dir"}

\* C11: get_all_file_data returns the direct entries of the storage
\* directory that are not subdirectories, except the lock marker: it never
\* returns a subdirectory and never returns .lock.
C11_ListOmitsDirsAndLock ==
    resp.op = "list"
    => /\ resp.names = NonDirEntries("p1") \ {LockName}
       /\ LockName \notin resp.names
       /\ SubDirName \notin resp.names

\* C12: a download request naming the lock marker is answered not-found,
\* and no download returns a handle open on the marker file.
C12_LockNotDownloadable ==
    resp.op = "download"
    => /\ resp.arg = LockName => ~resp.found
       /\ resp.found => resp.at # AtEntry("uploads", LockName)

\* the upload_file calls on p that have passed the checked increment
Counted(p) ==
    Cardinality({i \in DOMAIN reserved : reserved[i].proc = p})
    + Cardinality({t \in Tasks : task[t].pc = "unlock" /\ task[t].proc = p})

\* t returns an error from write_file in this step
FailsWriting(t) ==
    /\ task[t].pc \in {"create", "chunk"}
    /\ task'[t].pc = "idle"
    /\ log'[Len(log')].err = "io"

\* C13: when create, write or flush fails, upload_file returns an error
\* and the counter keeps the increment made for that call: upload_count is
\* the number of calls admitted, whether or not their files were stored.
C13_NoRollback ==
    /\ [](\A p \in Procs : upload_count[p] = Counted(p))
    /\ [](\A i \in DOMAIN log :
            log[i].err = "io"
            => /\ ~log[i].ok
               /\ log[i].after = log[i].id + 1
               /\ upload_count[log[i].proc] >= log[i].after)
    /\ [][\A t \in Tasks :
            FailsWriting(t)
            => /\ upload_count' = upload_count
               /\ log' = Append(log, log'[Len(log')])
               /\ log'[Len(log')].call = task[t].call]_vars

C13_Witness ==
    /\ \A t \in Tasks : task[t].pc = "idle"
    /\ Len(log) = 1
    /\ log[1].err = "io"
    /\ upload_count["p1"] = 1
    /\ Len(reserved) = 1

\* t is between upload_count.lock() and the end of the block
InCriticalSection(t) == task[t].pc \in {"read", "add", "unlock"}

\* t is in write_file
InWriteFile(t) == task[t].pc \in {"create", "chunk"}

\* C14: the counter's mutex is held only from the lock to the end of the
\* read-check-increment block: no call holds it while in write_file, and it
\* is free whenever no call is inside the block, so a call waiting for it
\* is not kept out by another call's write.
C14_MutexNotHeldAcrossWrite ==
    /\ \A t \in Tasks : InWriteFile(t) => mutex[task[t].proc] # t
    /\ \A p \in Procs :
          mutex[p] # NoTask => InCriticalSection(mutex[p]) /\ task[mutex[p]].proc = p
    /\ \A t \in Tasks : InCriticalSection(t) => mutex[task[t].proc] = t
    /\ \A t, u \in Tasks :
          (InWriteFile(t) /\ task[u].pc = "lock"
           /\ \A v \in Tasks : ~InCriticalSection(v))
          => ENABLED Lock(u)

\* the first call is still in its chunk loop; a later call took its id,
\* wrote its file and returned meanwhile
C14_Witness ==
    /\ task["t1"].pc = "chunk"
    /\ task["t1"].body # << >>
    /\ \E i \in DOMAIN log :
          /\ log[i].ok
          /\ log[i].call > task["t1"].call
          /\ log[i].id > task["t1"].file_id
          /\ task["t1"].call \in log[i].with

\* the upload_file calls that returned success with the name n
CompletedAs(n) == {i \in DOMAIN log : log[i].ok /\ log[i].name = n}

\* C15: in every state, each regular file of the storage directory other
\* than the lock marker is the file of exactly one upload_file call that
\* returned success.
C15_OneCompletedUploadPerFile ==
    \A n \in DOMAIN fs["uploads"].entries :
        (n # LockName /\ fs["uploads"].entries[n].kind = "file")
        => Cardinality(CompletedAs(n)) = 1

\* C16: after a controller is released and another is constructed on the
\* same storage directory, an upload of the new controller stored under
\* the default name never writes to a file that an upload of an earlier
\* controller stored.
C16_DefaultNamesSurviveRestart ==
    \A t \in Tasks :
        (task[t].pc = "chunk" /\ task[t].hint = None)
        => \A i \in DOMAIN log :
              (log[i].ok /\ log[i].proc # task[t].proc
               /\ proc[log[i].proc].pc = "released"
               /\ proc[log[i].proc].folder = proc[task[t].proc].folder)
              => task[t].handle # AtEntry(proc[log[i].proc].folder, log[i].name)

\* the lifecycle of the claim: Uninitialized is a process inside
\* FileUploader::new, Locked and Ready are the process holding the
\* controller new returned, Released is the process after its exit
Uninitialized(p) == proc[p].pc \in {"start", "dir", "opened"}
Live(p) == proc[p].pc = "ready"
Released(p) == proc[p].pc = "released"
Failed(p) == proc[p].pc = "failed"

HoldsLock(p) == flock[proc[p].folder] = p

Overflows(t) ==
    /\ task[t].pc = "add"
    /\ upload_count[task[t].proc] = U64Max
    /\ task'[t].pc # "add"

\* C18: at the maximum of the counter upload_file returns the overflow
\* error without creating, truncating or writing any file and without
\* reserving an id, and drops the guard; the controller stays live, which
\* is all that get_all_file_data and download_file need to answer.
C18_OverflowTouchesNothing ==
    /\ [][\A t \in Tasks :
            Overflows(t)
            => /\ fs' = fs /\ outside' = outside
               /\ upload_count' = upload_count /\ reserved' = reserved
               /\ proc' = proc /\ flock' = flock
               /\ mutex'[task[t].proc] = NoTask
               /\ task'[t] = IdleTask
               /\ log' = Append(log, log'[Len(log')])
               /\ log'[Len(log')].call = task[t].call
               /\ log'[Len(log')].err = "overflow" /\ ~log'[Len(log')].ok
               /\ log'[Len(log')].name = << >>]_vars
    /\ [](\A i \in DOMAIN log : log[i].err = "overflow" => Live(log[i].proc))

\* the third upload found the counter at its maximum: the two stored files
\* are as they were and the mutex is free
C18_Witness ==
    /\ \E i \in DOMAIN log : log[i].err = "overflow"
    /\ \A t \in Tasks : task[t].pc = "idle"
    /\ mutex["p1"] = NoTask
    /\ Cardinality({i \in DOMAIN log : log[i].ok}) = U64Max
    /\ \A i \in DOMAIN log :
          log[i].ok => DataAt(fs, AtEntry("uploads", log[i].name)) = log[i].stored
    /\ resp.op = "list" /\ Cardinality(resp.names) = U64Max + 1

\* C19: under fair scheduling every upload_file call waiting for the
\* counter's mutex gets it and gives it back, by the end of the block or
\* by the overflow error; the mutex is never held for ever, whether or not
\* any write_file ever finishes.
C19_MutexAlwaysReleased ==
    /\ \A t \in Tasks : (task[t].pc = "lock") ~> InCriticalSection(t)
    /\ \A t \in Tasks : InCriticalSection(t) ~> (task[t].pc \in {"create", "idle"})
    /\ \A p \in Procs : (mutex[p] # NoTask) ~> (mutex[p] = NoTask)

\* the first call is still in its chunk loop; later calls have taken and
\* returned the mutex, one by the overflow error, and get_info was answered
C19_Witness ==
    /\ task["t1"].pc = "chunk" /\ task["t1"].body # << >>
    /\ task["t1"].call = 1
    /\ \E i \in DOMAIN log : log[i].err = "overflow"
    /\ \E i \in DOMAIN log : log[i].ok
    /\ mutex["p1"] = NoTask
    /\ resp.op = "info"

====
